---- MODULE Spec2Model ----
(***************************************************************************)
(* Storm-Event-Tracker: a manager (coordinator) process and peer (node)    *)
(* processes talking over UDP datagrams.                                   *)
(*   src/manager.py  registry, identities, ring builder, distribution      *)
(*   src/peer.py     node store, lookup forwarding, leave, teardown        *)
(* The manager runs two threads (the datagram listener of run() and the    *)
(* console thread); they are modelled statement group by statement group,  *)
(* a `with self.lock` block being one step that needs the lock free.       *)
(***************************************************************************)
EXTENDS Integers, Sequences, FiniteSets, Bags, TLC

\* ---- bounds of the model ------------------------------------------------
MaxPeers == 2
NumEvents == 1
MaxCmds == 2
MaxForeign == 2
MaxRing == 3
NumStored == 2
MaxQueries == 2
MaxStores == 2

\* ---- program constants --------------------------------------------------
MANAGER_HOST == "127.0.0.1"
MANAGER_PORT == 5000
MANAGER_ADDRESS == <<MANAGER_HOST, MANAGER_PORT>>

\* Python's None, for an identity, for an address and for a datagram
NoId == -1
NoPeer == <<>>
NoMsg == [command |-> "none"]
Ports == 1..MaxPeers
\* peer.py binds ('127.0.0.1', p_port); p_port is the command-line argument
PeerAddr(p) == <<MANAGER_HOST, p>>
Threads == {"listener", "console"}

VARIABLES
  peers,         \* Manager.peers: peer_id -> (peer_address, peer_port)
  next_peer_id,  \* Manager.next_peer_id
  mrunning,      \* Manager.running
  lock,          \* Manager.lock: "free" or the thread holding it
  seed,          \* the per-process salt of Python's str hash
  pc,            \* position of each manager thread
  lmsg,          \* listener: the datagram being handled (message, addr)
  reg_id,        \* listener: register_peer's local peer_id
  sorted_peers,  \* update_ring's local sorted_peers, per calling thread
  ri,            \* update_ring's loop index, per calling thread
  rsnap,         \* history: the registry update_ring sorted, per thread
  rsent,         \* history: datagrams the current update_ring call has sent
  sorted_peer_ids, \* distribute_events' local sorted_peer_ids
  di,            \* distribute_events' loop position in self.events
  dsnap,         \* history: the registry distribute_events sorted
  dsent,         \* history: datagrams the current distribute call has sent
  dorders,       \* history: orderings used by distribute calls that sent
  ncmds,         \* number of console commands typed so far
  issued,        \* history: identities in the order register_peer issued them
  noops,         \* history: number of remove_peer calls that found no such peer
  net,           \* bag of datagrams in flight
  ppc,           \* position of each peer's main thread (start)
  plisten,       \* position of each peer's listener thread (listen)
  peer_id,       \* Peer.peer_id
  prunning,      \* Peer.running
  data_store,    \* Peer.data_store: event_id -> event_data
  next_peer,     \* Peer.next_peer
  queries,       \* history: bag of (requester port, event_id), one per query
  nqueries,      \* number of queries typed so far
  raised         \* history: (port, event_id) of the queries that raised

mgrVars == <<peers, next_peer_id, mrunning, lock, pc, lmsg, reg_id>>
ringVars == <<sorted_peers, ri, rsnap, rsent>>
distVars == <<sorted_peer_ids, di, dsnap, dsent, dorders>>
histVars == <<ncmds, issued, noops>>
peerVars == <<ppc, plisten, peer_id, prunning, data_store, next_peer>>
lookVars == <<queries, nqueries, raised>>
vars == <<mgrVars, ringVars, distVars, histVars, seed, net, peerVars, lookVars>>

\* ---- datagrams ----------------------------------------------------------
Send(m) == SetToBag({m})
InFlight(m) == BagIn(m, net)
Datagrams == BagToSet(net)

\* ---- the dataset --------------------------------------------------------
\* self.events after load_csv of a file of n rows: one mapping per CSV row
EventsOf(n) == [i \in 1..n |-> [EVENT_ID |-> i, LOCATION |-> i + 10]]

Events == EventsOf(NumEvents)

\* the salts tried for the hash of this manager process
Salts == {0, 1}

\* str(key)
Str(k) == <<"str", k>>

\* hash(key_str): Python's str hash, salted once per process (seed); a signed
\* integer.
PyHash(s) == ((s[2] * 3 + seed * 4) % 7) - 3

\* ---- the registry -------------------------------------------------------
RECURSIVE SortedIds(_)
SortedIds(S) ==
  IF S = {} THEN <<>>
  ELSE LET m == CHOOSE x \in S : \A y \in S : x <= y
       IN <<m>> \o SortedIds(S \ {m})

\* sorted(self.peers.items(), key=lambda x: x[0])
SortedItems(reg) ==
  LET ids == SortedIds(DOMAIN reg)
  IN [k \in 1..Len(ids) |-> <<ids[k], reg[ids[k]]>>]

Put(reg, id, rec) ==
  [x \in (DOMAIN reg) \cup {id} |-> IF x = id THEN rec ELSE reg[x]]

Del(reg, id) == [x \in (DOMAIN reg) \ {id} |-> reg[x]]

EmptyLocals == [t \in Threads |-> <<>>]
ZeroLocals == [t \in Threads |-> 0]

\* register_with_manager's first statement: the register datagram
RegisterMsg(p) ==
  [dst |-> MANAGER_ADDRESS, src |-> PeerAddr(p), command |-> "register",
   peer_port |-> p]

LeaveMsg(from, id) ==
  [dst |-> MANAGER_ADDRESS, src |-> from, command |-> "leave", peer_id |-> id]

\* a process this manager never registered (a peer of an earlier manager run
\* still holds the identity it was given then)
ForeignAddr == <<MANAGER_HOST, 0>>

\* The processes after construction.  A peer's first act is to send register
\* and wait; a peer not yet launched and a peer whose register datagram has
\* not yet been received are the same to everyone else, so every peer starts
\* as launched, its register datagram in flight (net0).
InitWith(net0) ==
  /\ peers = <<>>
  /\ next_peer_id = 0
  /\ mrunning = TRUE
  /\ lock = "free"
  /\ seed \in Salts
  /\ pc = [t \in Threads |-> IF t = "listener" THEN "recv" ELSE "input"]
  /\ lmsg = NoMsg
  /\ reg_id = NoId
  /\ sorted_peers = EmptyLocals
  /\ ri = ZeroLocals
  /\ rsnap = EmptyLocals
  /\ rsent = EmptyLocals
  /\ sorted_peer_ids = <<>>
  /\ di = 0
  /\ dsnap = <<>>
  /\ dsent = <<>>
  /\ dorders = {}
  /\ ncmds = 0
  /\ issued = <<>>
  /\ noops = 0
  /\ net = net0
  /\ ppc = [p \in Ports |-> "wait_id"]
  /\ plisten = [p \in Ports |-> "off"]
  /\ peer_id = [p \in Ports |-> NoId]
  /\ prunning = [p \in Ports |-> TRUE]
  /\ data_store = [p \in Ports |-> <<>>]
  /\ next_peer = [p \in Ports |-> NoPeer]
  /\ queries = EmptyBag
  /\ nqueries = 0
  /\ raised = {}

Init == InitWith(SetToBag({RegisterMsg(p) : p \in Ports}))

\* the same, with up to MaxForeign leave datagrams of foreign processes, each
\* naming any identity, on their way to the manager
RECURSIVE LeaveBags(_)
LeaveBags(k) ==
  IF k = 0 THEN {EmptyBag}
  ELSE LeaveBags(k - 1) \cup
       {b (+) Send(LeaveMsg(ForeignAddr, id)) :
          b \in LeaveBags(k - 1), id \in 0..MaxPeers}

InitRegistry ==
  \E b \in LeaveBags(MaxForeign) :
    InitWith(SetToBag({RegisterMsg(p) : p \in Ports}) (+) b)

\* ---- manager: the listener loop (Manager.run) ---------------------------
\* `while self.running` is tested after each handled datagram.
LoopTest == IF mrunning THEN "recv" ELSE "stopped"

\* Symmetry reduction.  Peers differ only in their port, and nothing computes
\* with a port: of the behaviours that differ only by a permutation of the
\* ports, the one in which the manager takes the register datagrams in
\* ascending port order stands for all.
PortOrder(m) ==
  \A d \in Datagrams :
    (d.dst = MANAGER_ADDRESS /\ d.command = "register")
      => m.peer_port <= d.peer_port

\* recvfrom + handle_message's dispatch on "command"
MgrRecvRegister ==
  /\ pc["listener"] = "recv"
  /\ \E m \in Datagrams :
       /\ m.dst = MANAGER_ADDRESS
       /\ m.command = "register"
       /\ PortOrder(m)
       /\ net' = net (-) Send(m)
       /\ lmsg' = m
       /\ pc' = [pc EXCEPT !["listener"] = "register"]
  /\ UNCHANGED <<peers, next_peer_id, mrunning, lock, reg_id, ringVars,
                 distVars, histVars, seed, peerVars, lookVars>>

MgrRecvLeave ==
  /\ pc["listener"] = "recv"
  /\ \E m \in Datagrams :
       /\ m.dst = MANAGER_ADDRESS
       /\ m.command = "leave"
       /\ net' = net (-) Send(m)
       /\ lmsg' = m
       /\ pc' = [pc EXCEPT !["listener"] = "remove"]
  /\ UNCHANGED <<peers, next_peer_id, mrunning, lock, reg_id, ringVars,
                 distVars, histVars, seed, peerVars, lookVars>>

\* store_ack is only printed
MgrRecvStoreAck ==
  /\ pc["listener"] = "recv"
  /\ \E m \in Datagrams :
       /\ m.dst = MANAGER_ADDRESS
       /\ m.command = "store_ack"
       /\ net' = net (-) Send(m)
       /\ pc' = [pc EXCEPT !["listener"] = LoopTest]
  /\ UNCHANGED <<peers, next_peer_id, mrunning, lock, lmsg, reg_id, ringVars,
                 distVars, histVars, seed, peerVars, lookVars>>

\* register_peer, the block under self.lock
NextIdStuck(n) == n

NextId(n) == n + 1

RegisterLocked ==
  /\ pc["listener"] = "register"
  /\ lock = "free"
  /\ reg_id' = next_peer_id
  /\ next_peer_id' = NextId(next_peer_id)
  /\ peers' = Put(peers, next_peer_id, <<lmsg.src[1], lmsg.peer_port>>)
  /\ issued' = Append(issued, next_peer_id)
  /\ pc' = [pc EXCEPT !["listener"] = "reg_send"]
  /\ UNCHANGED <<mrunning, lock, lmsg, ringVars, distVars, ncmds, noops,
                 seed, net, peerVars, lookVars>>

\* register_peer, the set_id reply to addr
RegisterSend ==
  /\ pc["listener"] = "reg_send"
  /\ net' = net (+) Send([dst |-> lmsg.src, src |-> MANAGER_ADDRESS,
                          command |-> "set_id", peer_id |-> reg_id])
  /\ lmsg' = NoMsg
  /\ reg_id' = NoId
  /\ pc' = [pc EXCEPT !["listener"] = LoopTest]
  /\ UNCHANGED <<peers, next_peer_id, mrunning, lock, ringVars, distVars,
                 histVars, seed, peerVars, lookVars>>

KnownAlways(reg, id) == TRUE

\* `if peer_id in self.peers`
Known(reg, id) == id \in DOMAIN reg

\* remove_peer: the whole body is under self.lock; with the identity present
\* it calls update_ring while still holding the lock.
RemovePeer ==
  /\ pc["listener"] = "remove"
  /\ lock = "free"
  /\ IF Known(peers, lmsg.peer_id)
     THEN /\ peers' = Del(peers, lmsg.peer_id)
          /\ lock' = "listener"
          /\ noops' = noops
          /\ pc' = [pc EXCEPT !["listener"] = "ring_lock"]
     ELSE /\ peers' = peers
          /\ lock' = "free"
          /\ noops' = noops + 1
          /\ pc' = [pc EXCEPT !["listener"] = "remove_done"]
  /\ UNCHANGED <<next_peer_id, mrunning, lmsg, reg_id, ringVars, distVars,
                 ncmds, issued, seed, net, peerVars, lookVars>>

\* return from remove_peer to the listener loop
RemoveReturn ==
  /\ pc["listener"] = "remove_done"
  /\ lmsg' = NoMsg
  /\ pc' = [pc EXCEPT !["listener"] = LoopTest]
  /\ UNCHANGED <<peers, next_peer_id, mrunning, lock, reg_id, ringVars,
                 distVars, histVars, seed, net, peerVars, lookVars>>

\* ---- update_ring (called by remove_peer and by the console's setup) -----
\* the block under self.lock, then `if n == 0: return`
UpdateRingLock(t) ==
  /\ pc[t] = "ring_lock"
  /\ lock = "free"
  /\ sorted_peers' = [sorted_peers EXCEPT ![t] = SortedItems(peers)]
  /\ rsnap' = [rsnap EXCEPT ![t] = peers]
  /\ rsent' = [rsent EXCEPT ![t] = <<>>]
  /\ ri' = [ri EXCEPT ![t] = 0]
  /\ pc' = [pc EXCEPT ![t] = IF Len(SortedItems(peers)) = 0
                             THEN "ring_done" ELSE "ring_send"]
  /\ UNCHANGED <<peers, next_peer_id, mrunning, lock, lmsg, reg_id, distVars,
                 histVars, seed, net, peerVars, lookVars>>

NextIndexNoWrap(i, n) == IF i + 1 < n THEN i + 1 ELSE i

\* next_index = (i + 1) % n
NextIndex(i, n) == (i + 1) % n

\* the datagram of loop pass i (0-based, as enumerate gives it)
RingMsg(sp, i) ==
  [dst |-> sp[i + 1][2], src |-> MANAGER_ADDRESS, command |-> "set_next_peer",
   next_peer |-> sp[NextIndex(i, Len(sp)) + 1][2]]

UpdateRingSend(t) ==
  /\ pc[t] = "ring_send"
  /\ LET m == RingMsg(sorted_peers[t], ri[t])
     IN /\ net' = net (+) Send(m)
        /\ rsent' = [rsent EXCEPT ![t] = Append(@, m)]
  /\ ri' = [ri EXCEPT ![t] = @ + 1]
  /\ pc' = [pc EXCEPT ![t] = IF ri[t] + 1 = Len(sorted_peers[t])
                             THEN "ring_done" ELSE "ring_send"]
  /\ UNCHANGED <<peers, next_peer_id, mrunning, lock, lmsg, reg_id,
                 sorted_peers, rsnap, distVars, histVars, seed, peerVars,
                 lookVars>>

\* return from update_ring: to the console prompt, or to remove_peer, which
\* leaves its `with self.lock` block and returns to the listener loop
UpdateRingReturn(t) ==
  /\ pc[t] = "ring_done"
  /\ sorted_peers' = [sorted_peers EXCEPT ![t] = <<>>]
  /\ ri' = [ri EXCEPT ![t] = 0]
  /\ rsnap' = [rsnap EXCEPT ![t] = <<>>]
  /\ rsent' = [rsent EXCEPT ![t] = <<>>]
  /\ IF t = "listener"
     THEN /\ lock' = "free"
          /\ lmsg' = NoMsg
          /\ pc' = [pc EXCEPT ![t] = LoopTest]
     ELSE /\ lock' = lock
          /\ lmsg' = lmsg
          /\ pc' = [pc EXCEPT ![t] = "input"]
  /\ UNCHANGED <<peers, next_peer_id, mrunning, reg_id, distVars, histVars,
                 seed, net, peerVars, lookVars>>

\* ---- the console thread -------------------------------------------------
\* input() and the dispatch on the command typed
ConsoleCmd(cmd) ==
  /\ pc["console"] = "input"
  /\ mrunning
  /\ ncmds < MaxCmds
  /\ ncmds' = ncmds + 1
  /\ pc' = [pc EXCEPT !["console"] =
              CASE cmd = "setup" -> "ring_lock"
                [] cmd = "distribute" -> "dist_lock"
                [] cmd = "teardown" -> "teardown"]
  /\ UNCHANGED <<peers, next_peer_id, mrunning, lock, lmsg, reg_id, ringVars,
                 distVars, issued, noops, seed, net, peerVars, lookVars>>

RefusedNever(reg) == FALSE

\* `if not self.peers`
Refused(reg) == DOMAIN reg = {}

\* distribute_events, the block under self.lock
DistributeLock ==
  /\ pc["console"] = "dist_lock"
  /\ lock = "free"
  /\ dsnap' = peers
  /\ dsent' = <<>>
  /\ IF Refused(peers)
     THEN /\ sorted_peer_ids' = <<>>
          /\ di' = 0
          /\ pc' = [pc EXCEPT !["console"] = "dist_done"]
     ELSE /\ sorted_peer_ids' = SortedIds(DOMAIN peers)
          /\ di' = 1
          /\ pc' = [pc EXCEPT !["console"] =
                      IF NumEvents = 0 THEN "dist_done" ELSE "dist_loop"]
  /\ UNCHANGED <<peers, next_peer_id, mrunning, lock, lmsg, reg_id, ringVars,
                 dorders, histVars, seed, net, peerVars, lookVars>>

\* hash(key_str) % num_peers
AssignedIndex(key_str, num_peers) == PyHash(key_str) % num_peers

\* the store datagram of one event
StoreMsg(event, to) ==
  [dst |-> to, src |-> MANAGER_ADDRESS, command |-> "store",
   event_id |-> Str(event.EVENT_ID), event_data |-> event]

\* DistributeSend with every registered peer sent the store
DistributeSendAll ==
  /\ pc["console"] = "dist_loop"
  /\ LET event == Events[di]
     IN /\ net' = net (+) SetToBag({StoreMsg(event, peers[id]) :
                                     id \in DOMAIN peers})
        /\ dsent' = dsent \o <<StoreMsg(event, NoPeer)>>
        /\ dorders' = dorders \cup {sorted_peer_ids}
        /\ di' = di + 1
        /\ pc' = [pc EXCEPT !["console"] =
                    IF di = NumEvents THEN "dist_done" ELSE "dist_loop"]
  /\ UNCHANGED <<peers, next_peer_id, mrunning, lock, lmsg, reg_id, ringVars,
                 sorted_peer_ids, dsnap, histVars, seed, peerVars, lookVars>>

\* one pass of `for event in self.events`.  self.peers[assigned_peer_id] is
\* read outside the lock and outside the try: a KeyError (like a
\* ZeroDivisionError of the modulo) leaves distribute_events and is caught by
\* console_thread.
DistributeSend ==
  /\ pc["console"] = "dist_loop"
  /\ LET event == Events[di]
         key_str == Str(event.EVENT_ID)
         num_peers == Len(sorted_peer_ids)
         assigned_peer_id ==
           sorted_peer_ids[AssignedIndex(key_str, num_peers) + 1]
     IN IF num_peers # 0 /\ assigned_peer_id \in DOMAIN peers
        THEN LET m == StoreMsg(event, peers[assigned_peer_id])
             IN /\ net' = net (+) Send(m)
                /\ dsent' = Append(dsent, m)
                /\ dorders' = dorders \cup {sorted_peer_ids}
                /\ di' = di + 1
                /\ pc' = [pc EXCEPT !["console"] =
                            IF di = NumEvents THEN "dist_done" ELSE "dist_loop"]
        ELSE /\ pc' = [pc EXCEPT !["console"] = "dist_error"]
             /\ UNCHANGED <<net, dsent, dorders, di>>
  /\ UNCHANGED <<peers, next_peer_id, mrunning, lock, lmsg, reg_id, ringVars,
                 sorted_peer_ids, dsnap, histVars, seed, peerVars, lookVars>>

\* back at the console prompt (normally, or through console_thread's except)
DistributeReturn ==
  /\ pc["console"] \in {"dist_done", "dist_error"}
  /\ sorted_peer_ids' = <<>>
  /\ di' = 0
  /\ dsnap' = <<>>
  /\ dsent' = <<>>
  /\ pc' = [pc EXCEPT !["console"] = "input"]
  /\ UNCHANGED <<peers, next_peer_id, mrunning, lock, lmsg, reg_id, ringVars,
                 dorders, histVars, seed, net, peerVars, lookVars>>

\* teardown: one datagram per registered peer under the lock, then
\* self.running = False
Teardown ==
  /\ pc["console"] = "teardown"
  /\ lock = "free"
  /\ net' = net (+) SetToBag({[dst |-> peers[id], src |-> MANAGER_ADDRESS,
                               command |-> "teardown"] : id \in DOMAIN peers})
  /\ mrunning' = FALSE
  /\ pc' = [pc EXCEPT !["console"] = "stopped"]
  /\ UNCHANGED <<peers, next_peer_id, lock, lmsg, reg_id, ringVars, distVars,
                 histVars, seed, peerVars, lookVars>>

\* ---- peers --------------------------------------------------------------
\* register_with_manager: the first datagram to arrive is taken for the reply
PeerRecvId(p) ==
  /\ ppc[p] = "wait_id"
  /\ \E m \in Datagrams :
       /\ m.dst = PeerAddr(p)
       /\ net' = net (-) Send(m)
       /\ peer_id' = [peer_id EXCEPT ![p] =
                        IF m.command = "set_id" THEN m.peer_id ELSE @]
  /\ ppc' = [ppc EXCEPT ![p] = "serving"]
  /\ plisten' = [plisten EXCEPT ![p] = "recvfrom"]
  /\ UNCHANGED <<mgrVars, ringVars, distVars, histVars, seed, prunning,
                 data_store, next_peer, lookVars>>

\* the listener thread of a peer is in recvfrom and the process is alive.
\* `while self.running` is tested only after a datagram has been handled, so
\* a listener waiting in recvfrom takes one more datagram after the main
\* thread has cleared the flag, until the process has exited.
Listening(p) == plisten[p] = "recvfrom" /\ ppc[p] \in {"serving", "exiting"}

\* `while self.running` of listen, after a handled datagram
PeerLoopTest(running) == IF running THEN "recvfrom" ELSE "stopped"

StoreEventKeepsOld(store, event_id, event_data) ==
  IF event_id \in DOMAIN store THEN store ELSE Put(store, event_id, event_data)

\* store_event
StoreEvent(store, event_id, event_data) == Put(store, event_id, event_data)

\* handle_store
HandleStore(p) ==
  /\ Listening(p)
  /\ \E m \in Datagrams :
       /\ m.dst = PeerAddr(p)
       /\ m.command = "store"
       /\ data_store' = [data_store EXCEPT ![p] =
                           StoreEvent(@, m.event_id, m.event_data)]
       /\ net' = (net (-) Send(m)) (+)
                 Send([dst |-> MANAGER_ADDRESS, src |-> PeerAddr(p),
                       command |-> "store_ack", peer_id |-> peer_id[p],
                       event_id |-> m.event_id])
  /\ plisten' = [plisten EXCEPT ![p] = PeerLoopTest(prunning[p])]
  /\ UNCHANGED <<mgrVars, ringVars, distVars, histVars, seed, ppc, peer_id,
                 prunning, next_peer, lookVars>>

\* handle_set_next_peer
HandleSetNextPeer(p) ==
  /\ Listening(p)
  /\ \E m \in Datagrams :
       /\ m.dst = PeerAddr(p)
       /\ m.command = "set_next_peer"
       /\ next_peer' = [next_peer EXCEPT ![p] = m.next_peer]
       /\ net' = net (-) Send(m)
  /\ plisten' = [plisten EXCEPT ![p] = PeerLoopTest(prunning[p])]
  /\ UNCHANGED <<mgrVars, ringVars, distVars, histVars, seed, ppc, peer_id,
                 prunning, data_store, lookVars>>

\* handle_teardown
HandleTeardown(p) ==
  /\ Listening(p)
  /\ \E m \in Datagrams :
       /\ m.dst = PeerAddr(p)
       /\ m.command = "teardown"
       /\ prunning' = [prunning EXCEPT ![p] = FALSE]
       /\ plisten' = [plisten EXCEPT ![p] = PeerLoopTest(FALSE)]
       /\ net' = net (-) Send(m)
  /\ UNCHANGED <<mgrVars, ringVars, distVars, histVars, seed, ppc, peer_id,
                 data_store, next_peer, lookVars>>

\* a set_id arriving at the listener thread is ignored
HandleSetId(p) ==
  /\ Listening(p)
  /\ \E m \in Datagrams :
       /\ m.dst = PeerAddr(p)
       /\ m.command = "set_id"
       /\ net' = net (-) Send(m)
  /\ plisten' = [plisten EXCEPT ![p] = PeerLoopTest(prunning[p])]
  /\ UNCHANGED <<mgrVars, ringVars, distVars, histVars, seed, ppc, peer_id,
                 prunning, data_store, next_peer, lookVars>>

\* send_leave, typed at the peer's prompt; the main loop then ends
SendLeave(p) ==
  /\ ppc[p] = "serving"
  /\ net' = IF peer_id[p] # NoId
            THEN net (+) Send(LeaveMsg(PeerAddr(p), peer_id[p]))
            ELSE net
  /\ prunning' = [prunning EXCEPT ![p] = FALSE]
  /\ ppc' = [ppc EXCEPT ![p] = "exiting"]
  /\ UNCHANGED <<mgrVars, ringVars, distVars, histVars, seed, plisten,
                 peer_id, data_store, next_peer, lookVars>>

\* start() returns and the process exits; the listener, a daemon thread, ends
\* with it
PeerExit(p) ==
  /\ ppc[p] = "exiting"
  /\ ppc' = [ppc EXCEPT ![p] = "exited"]
  /\ UNCHANGED <<mgrVars, ringVars, distVars, histVars, seed, net, plisten,
                 peer_id, prunning, data_store, next_peer, lookVars>>

\* ---- lookups -----------------------------------------------------------
IsSetNever(np) == FALSE

\* `if self.next_peer`
IsSet(np) == np # NoPeer

\* the find_event datagram; hops is history, not part of the message: the
\* number of times it has been forwarded, counted up to MaxRing
FindMsg(to, from, event_id, hops) ==
  [dst |-> to, src |-> from, command |-> "find_event", event_id |-> event_id,
   hops |-> hops]

NextHops(h) == IF h < MaxRing THEN h + 1 ELSE h

HoldsKeyNever(store, event_id) == FALSE

\* `if event_id in self.data_store`
HoldsKey(store, event_id) == event_id \in DOMAIN store

\* sendto(data, None): the address must be a tuple, a TypeError is raised
SendtoRaises(addr) == addr = NoPeer

\* query_event, typed at the peer's prompt.  With no successor it calls
\* handle_message(msg, None): a key held locally is answered with
\* sendto(..., None), which raises and is caught by the prompt loop; an
\* absent key is only printed.  Either way nothing is sent.
QueryEvent(p, event_id) ==
  /\ ppc[p] = "serving"
  /\ nqueries < MaxQueries
  /\ nqueries' = nqueries + 1
  /\ queries' = queries (+) SetToBag({<<p, event_id>>})
  /\ net' = IF IsSet(next_peer[p])
            THEN net (+) Send(FindMsg(next_peer[p], PeerAddr(p), event_id, 0))
            ELSE net
  /\ raised' = IF /\ ~IsSet(next_peer[p])
                  /\ HoldsKey(data_store[p], event_id)
                  /\ SendtoRaises(NoPeer)
               THEN raised \cup {<<p, event_id>>}
               ELSE raised
  /\ ppc' = [ppc EXCEPT ![p] = IF prunning[p] THEN "serving" ELSE "exiting"]
  /\ UNCHANGED <<mgrVars, ringVars, distVars, histVars, seed, plisten,
                 peer_id, prunning, data_store, next_peer>>

\* handle_find_event(message, addr): answer the sender of the datagram, or
\* forward the message to the successor, or drop it
HandleFindEvent(p) ==
  /\ Listening(p)
  /\ \E m \in Datagrams :
       /\ m.dst = PeerAddr(p)
       /\ m.command = "find_event"
       /\ net' =
            IF HoldsKey(data_store[p], m.event_id)
            THEN (net (-) Send(m)) (+)
                 Send([dst |-> m.src, src |-> PeerAddr(p),
                       command |-> "found_event", event_id |-> m.event_id,
                       event_data |-> data_store[p][m.event_id]])
            ELSE IF IsSet(next_peer[p])
                 THEN (net (-) Send(m)) (+)
                      Send(FindMsg(next_peer[p], PeerAddr(p), m.event_id,
                                   NextHops(m.hops)))
                 ELSE net (-) Send(m)
  /\ plisten' = [plisten EXCEPT ![p] = PeerLoopTest(prunning[p])]
  /\ UNCHANGED <<mgrVars, ringVars, distVars, histVars, seed, ppc, peer_id,
                 prunning, data_store, next_peer, lookVars>>

\* handle_found_event: printed
HandleFoundEvent(p) ==
  /\ Listening(p)
  /\ \E m \in Datagrams :
       /\ m.dst = PeerAddr(p)
       /\ m.command = "found_event"
       /\ net' = net (-) Send(m)
  /\ plisten' = [plisten EXCEPT ![p] = PeerLoopTest(prunning[p])]
  /\ UNCHANGED <<mgrVars, ringVars, distVars, histVars, seed, ppc, peer_id,
                 prunning, data_store, next_peer, lookVars>>

\* A system at rest in which lookups are typed: n peers (ports 1..n) have
\* registered and hold identities 0..n-1, distribute has placed a dataset of
\* NumStored rows and every store and store_ack has been handled, and either
\* setup has run and every set_next_peer has been handled (ring) or it has
\* not run (no peer has a successor).
InitLookup ==
  \E n \in 1..MaxRing, ring \in BOOLEAN :
    LET reg == [id \in 0..(n - 1) |-> PeerAddr(id + 1)]
        ids == SortedIds(DOMAIN reg)
        rows == EventsOf(NumStored)
        owned(p) == {i \in 1..NumStored :
                       ids[AssignedIndex(Str(rows[i].EVENT_ID), n) + 1] = p - 1}
    IN /\ peers = reg
       /\ next_peer_id = n
       /\ mrunning = TRUE
       /\ lock = "free"
       /\ seed \in Salts
       /\ pc = [t \in Threads |-> IF t = "listener" THEN "recv" ELSE "input"]
       /\ lmsg = NoMsg
       /\ reg_id = NoId
       /\ sorted_peers = EmptyLocals
       /\ ri = ZeroLocals
       /\ rsnap = EmptyLocals
       /\ rsent = EmptyLocals
       /\ sorted_peer_ids = <<>>
       /\ di = 0
       /\ dsnap = <<>>
       /\ dsent = <<>>
       /\ dorders = {ids}
       /\ ncmds = IF ring THEN 2 ELSE 1
       /\ issued = ids
       /\ noops = 0
       /\ net = EmptyBag
       /\ ppc = [p \in 1..n |-> "serving"]
       /\ plisten = [p \in 1..n |-> "recvfrom"]
       /\ peer_id = [p \in 1..n |-> p - 1]
       /\ prunning = [p \in 1..n |-> TRUE]
       /\ data_store = [p \in 1..n |->
                          [k \in {Str(rows[i].EVENT_ID) : i \in owned(p)} |->
                             rows[k[2]]]]
       /\ next_peer = [p \in 1..n |->
                         IF ring
                         THEN RingMsg(SortedItems(reg), p - 1).next_peer
                         ELSE NoPeer]
       /\ queries = EmptyBag
       /\ nqueries = 0
       /\ raised = {}

\* the keys typed at a prompt: the stored ones and one stored nowhere
QueryKeys == {Str(k) : k \in 1..(NumStored + 1)}

\* rows of a CSV file in which an EVENT_ID occurs on several rows (one row
\* per location of the event)
Rows ==
  {[EVENT_ID |-> k, LOCATION |-> 10 + l] : k \in 1..NumStored, l \in 1..NumStored}

\* bags of at most k store datagrams, each carrying a row to a node
RECURSIVE StoreBags(_)
StoreBags(k) ==
  IF k = 0 THEN {EmptyBag}
  ELSE StoreBags(k - 1) \cup
       {b (+) Send(StoreMsg(row, PeerAddr(p))) :
          b \in StoreBags(k - 1), row \in Rows, p \in Ports}

\* Nodes in the middle of a distribute: every node has registered, holds the
\* first row of EVENT_ID 1 from an earlier loop pass, and has a successor or
\* not; up to MaxStores store datagrams of later passes are on their way.
InitStore ==
  \E b \in StoreBags(MaxStores), ring \in BOOLEAN :
    LET reg == [id \in 0..(MaxPeers - 1) |-> PeerAddr(id + 1)]
    IN /\ peers = reg
       /\ next_peer_id = MaxPeers
       /\ mrunning = TRUE
       /\ lock = "free"
       /\ seed \in Salts
       /\ pc = [t \in Threads |-> IF t = "listener" THEN "recv" ELSE "input"]
       /\ lmsg = NoMsg
       /\ reg_id = NoId
       /\ sorted_peers = EmptyLocals
       /\ ri = ZeroLocals
       /\ rsnap = EmptyLocals
       /\ rsent = EmptyLocals
       /\ sorted_peer_ids = <<>>
       /\ di = 0
       /\ dsnap = <<>>
       /\ dsent = <<>>
       /\ dorders = {SortedIds(DOMAIN reg)}
       /\ ncmds = IF ring THEN 2 ELSE 1
       /\ issued = SortedIds(DOMAIN reg)
       /\ noops = 0
       /\ net = b
       /\ ppc = [p \in Ports |-> "serving"]
       /\ plisten = [p \in Ports |-> "recvfrom"]
       /\ peer_id = [p \in Ports |-> p - 1]
       /\ prunning = [p \in Ports |-> TRUE]
       /\ data_store = [p \in Ports |->
                          [k \in {Str(1)} |-> [EVENT_ID |-> 1, LOCATION |-> 10]]]
       /\ next_peer = [p \in Ports |->
                         IF ring
                         THEN RingMsg(SortedItems(reg), p - 1).next_peer
                         ELSE NoPeer]
       /\ queries = EmptyBag
       /\ nqueries = 0
       /\ raised = {}

\* ---- specifications ---------------------------------------------------
Commands == {"setup", "distribute", "teardown"}

\* the whole system: the manager's two threads and the peers.  A peer sends
\* leave once, with the identity the manager gave it, and the manager handles
\* nothing after a successful remove, so remove_peer never meets an unknown
\* identity here and RemoveReturn has no step to take.
Next ==
  \/ MgrRecvRegister
  \/ MgrRecvLeave
  \/ MgrRecvStoreAck
  \/ RegisterLocked
  \/ RegisterSend
  \/ RemovePeer
  \/ \E t \in Threads : UpdateRingLock(t)
  \/ \E t \in Threads : UpdateRingSend(t)
  \/ \E t \in Threads : UpdateRingReturn(t)
  \/ \E cmd \in Commands : ConsoleCmd(cmd)
  \/ DistributeLock
  \/ DistributeSend
  \/ DistributeReturn
  \/ Teardown
  \/ \E p \in Ports : PeerRecvId(p)
  \/ \E p \in Ports : HandleStore(p)
  \/ \E p \in Ports : HandleSetNextPeer(p)
  \/ \E p \in Ports : HandleTeardown(p)
  \/ \E p \in Ports : HandleSetId(p)
  \/ \E p \in Ports : SendLeave(p)
  \/ \E p \in Ports : PeerExit(p)

Spec == Init /\ [][Next]_vars

\* the manager alone: register datagrams of the peers and leave datagrams
\* naming any identity arrive in any order; what the manager sends stays in
\* flight
NextRegistry ==
  \/ MgrRecvRegister
  \/ MgrRecvLeave
  \/ RegisterLocked
  \/ RegisterSend
  \/ RemovePeer
  \/ RemoveReturn
  \/ \E t \in Threads : UpdateRingLock(t)
  \/ \E t \in Threads : UpdateRingSend(t)
  \/ \E t \in Threads : UpdateRingReturn(t)
  \/ \E cmd \in Commands : ConsoleCmd(cmd)
  \/ DistributeLock
  \/ DistributeSend
  \/ DistributeReturn
  \/ Teardown

SpecRegistry == InitRegistry /\ [][NextRegistry]_vars

\* registration, departure and distribution only: the manager's listener, the
\* console's distribute command, and the peers' registration, store handling
\* and leave
NextPlacement ==
  \/ MgrRecvRegister
  \/ MgrRecvLeave
  \/ RegisterLocked
  \/ RegisterSend
  \/ RemovePeer
  \/ ConsoleCmd("distribute")
  \/ DistributeLock
  \/ DistributeSend
  \/ DistributeReturn
  \/ \E p \in Ports : PeerRecvId(p)
  \/ \E p \in Ports : HandleStore(p)
  \/ \E p \in Ports : SendLeave(p)
  \/ \E p \in Ports : PeerExit(p)

SpecPlacement == Init /\ [][NextPlacement]_vars

\* lookups in a system at rest
NextLookup ==
  \/ \E p \in DOMAIN ppc, k \in QueryKeys : QueryEvent(p, k)
  \/ \E p \in DOMAIN ppc : HandleFindEvent(p)
  \/ \E p \in DOMAIN ppc : HandleFoundEvent(p)

SpecLookup == InitLookup /\ [][NextLookup]_vars

\* store handling alone: the nodes take the store datagrams in any order and
\* the manager's listener takes the acknowledgements
NextStore ==
  \/ \E p \in Ports : HandleStore(p)
  \/ MgrRecvStoreAck

SpecStore == InitStore /\ [][NextStore]_vars

\* the whole system with the scheduling Python gives: a thread that can take
\* a step eventually takes one (the operator may stay silent)
ListenerNext ==
  \/ MgrRecvRegister
  \/ MgrRecvLeave
  \/ MgrRecvStoreAck
  \/ RegisterLocked
  \/ RegisterSend
  \/ RemovePeer
  \/ UpdateRingLock("listener")
  \/ UpdateRingSend("listener")
  \/ UpdateRingReturn("listener")

ConsoleNext ==
  \/ UpdateRingLock("console")
  \/ UpdateRingSend("console")
  \/ UpdateRingReturn("console")
  \/ DistributeLock
  \/ DistributeSend
  \/ DistributeReturn
  \/ Teardown

FairSpec == Spec /\ WF_vars(ListenerNext) /\ WF_vars(ConsoleNext)

\* ---- properties ---------------------------------------------------------
\* number of copies in bag b of the elements of S
RECURSIVE Copies(_, _)
Copies(S, b) ==
  IF S = {} THEN 0
  ELSE LET x == CHOOSE y \in S : TRUE
       IN CopiesIn(x, b) + Copies(S \ {x}, b)

\* position (0-based) of id in the ascending order of reg's identities
Rank(reg, id) == Cardinality({x \in DOMAIN reg : x < id})

\* the identity after id in the cyclic ascending order of reg's identities
SuccId(reg, id) ==
  LET above == {x \in DOMAIN reg : x > id}
      from == IF above = {} THEN DOMAIN reg ELSE above
  IN CHOOSE x \in from : \A y \in from : x <= y

\* a manager thread at a `with self.lock`
LockWaits == {"register", "remove", "ring_lock", "dist_lock", "teardown"}

\* C1: every successful remove is followed by a ring rebuild and broadcast:
\* once remove_peer has deleted the identity and called update_ring, that
\* update_ring eventually completes its broadcast to the remaining peers.
C1_RemoveThenBroadcast ==
  (pc["listener"] = "ring_lock") ~> (pc["listener"] = "ring_done")

\* C2: a found_event for a key is sent to the node that issued the query for
\* that key, never to a node that only forwarded the find_event.
C2_FoundGoesToRequester ==
  \A m \in Datagrams :
    m.command = "found_event" =>
      \E p \in DOMAIN ppc :
        PeerAddr(p) = m.dst /\ CopiesIn(<<p, m.event_id>>, queries) > 0

\* C3: the identities issued start at 0, each is strictly greater than every
\* identity issued before it (so all are distinct), and every identity that
\* can still be issued is greater than all issued so far, departed or not.
C3_IdentitiesIncrease ==
  /\ Len(issued) > 0 => issued[1] = 0
  /\ \A i, j \in 1..Len(issued) : i < j => issued[i] < issued[j]
  /\ \A i \in 1..Len(issued) : issued[i] < next_peer_id

\* C3 witness: every peer has been issued an identity and one of them has
\* since been removed from the registry.
C3_Witness ==
  /\ Len(issued) = MaxPeers
  /\ Cardinality(DOMAIN peers) < Len(issued)

\* C4: the datagrams a rebuild has sent are, in order, one set_next_peer per
\* peer of the registry it sorted, to the peer at position i of the ascending
\* identity order, naming the (address, port) of the peer at position
\* (i + 1) mod n; a finished rebuild has sent exactly n of them (none for an
\* empty registry, the sole peer itself for n = 1).
C4_RingBroadcast ==
  \A t \in Threads :
    pc[t] \in {"ring_send", "ring_done"} =>
      /\ Len(rsent[t]) = ri[t]
      /\ pc[t] = "ring_done" => Len(rsent[t]) = Cardinality(DOMAIN rsnap[t])
      /\ \A k \in 1..Len(rsent[t]) :
           \E id \in DOMAIN rsnap[t] :
             /\ Rank(rsnap[t], id) = k - 1
             /\ rsent[t][k] =
                  [dst |-> rsnap[t][id], src |-> MANAGER_ADDRESS,
                   command |-> "set_next_peer",
                   next_peer |-> rsnap[t][SuccId(rsnap[t], id)]]

\* C4 witness: a rebuild over a registry of MaxPeers peers has finished.
C4_Witness ==
  /\ pc["console"] = "ring_done"
  /\ Cardinality(DOMAIN rsnap["console"]) = MaxPeers

\* C5: no manager thread blocks forever on the registry lock: a thread that
\* waits at a `with self.lock` never waits for a lock it holds itself.
C5_NoThreadWaitsOnItself ==
  \A t \in Threads : pc[t] \in LockWaits => lock # t

\* every node has a successor
RingSet == \A p \in DOMAIN next_peer : next_peer[p] # NoPeer

\* no node's partition holds key k
Absent(k) == \A p \in DOMAIN data_store : k \notin DOMAIN data_store[p]

\* C6: in a ring where every node has a successor, each lookup issued for a
\* key no node holds stays in flight as one find_event for ever, and no
\* found_event for that key is sent.
C6_AbsentLookupCirculates ==
  \A k \in QueryKeys :
    (RingSet /\ Absent(k)) =>
      /\ Copies({m \in Datagrams :
                   m.command = "find_event" /\ m.event_id = k}, net)
           = Copies({q \in BagToSet(queries) : q[2] = k}, queries)
      /\ \A m \in Datagrams : m.command = "found_event" => m.event_id # k

\* C6 witness: in a ring of MaxRing nodes, the find_event for an absent key
\* is in flight from a node that never asked for it (it has been forwarded).
C6_Witness ==
  /\ RingSet
  /\ Cardinality(DOMAIN ppc) = MaxRing
  /\ \E m \in Datagrams :
       /\ m.command = "find_event"
       /\ Absent(m.event_id)
       /\ CopiesIn(<<m.src[2], m.event_id>>, queries) = 0

\* C7: when a distribute over a non-empty registry has ended, every item has
\* been sent in exactly one store datagram, in order, to the peer at index
\* hash(key) mod n of the ascending identity order of that registry.
C7_EveryItemSentToOwner ==
  (pc["console"] \in {"dist_done", "dist_error"} /\ DOMAIN dsnap # {}) =>
    /\ Len(dsent) = NumEvents
    /\ \A i \in 1..Len(dsent) :
         \E id \in DOMAIN dsnap :
           /\ Rank(dsnap, id) =
                PyHash(Str(Events[i].EVENT_ID)) % Cardinality(DOMAIN dsnap)
           /\ dsent[i] = StoreMsg(Events[i], dsnap[id])

\* C8: remove_peer for an identity that is not in the registry changes
\* neither the registry nor the identity counter, sends nothing, leaves the
\* lock free and returns; so does every repetition of it.
C8_UnknownRemoveIsNoOp ==
  [][(/\ pc["listener"] = "remove"
      /\ lmsg.peer_id \notin DOMAIN peers
      /\ pc'["listener"] # "remove")
     => (/\ peers' = peers
         /\ next_peer_id' = next_peer_id
         /\ net' = net
         /\ lock' = lock
         /\ pc'["listener"] = "remove_done")]_vars

\* C8 witness: a second removal of an unknown identity has just been handled
\* with a peer in the registry.
C8_Witness ==
  /\ noops = 2
  /\ pc["listener"] = "remove_done"
  /\ DOMAIN peers # {}

\* C9: a distribute that finds the registry empty is refused: the console
\* thread returns to its prompt without sending anything and without
\* changing the registry or the identity counter.
C9_EmptyRegistryRefused ==
  [][(/\ \/ pc["console"] = "dist_lock" /\ DOMAIN peers = {}
         \/ pc["console"] = "dist_done" /\ DOMAIN dsnap = {}
      /\ pc'["console"] # pc["console"])
     => (/\ pc'["console"] \in {"dist_done", "input"}
         /\ net' = net
         /\ peers' = peers
         /\ next_peer_id' = next_peer_id)]_vars

\* C9 witness: a distribute has been refused.
C9_Witness ==
  /\ pc["console"] = "dist_done"
  /\ DOMAIN dsnap = {}

\* the nodes whose partition holds key k, and the keys held anywhere
Holders(k) == {p \in DOMAIN data_store : k \in DOMAIN data_store[p]}

HeldKeys == UNION {DOMAIN data_store[p] : p \in DOMAIN data_store}

\* C10 as claimed: no two nodes' partitions contain the same key.
C10_KeyOnOneNode ==
  \A k \in HeldKeys : Cardinality(Holders(k)) <= 1

\* C10 as amended: a key is held by at most as many nodes as there are
\* distinct registry orderings that distribute has placed items under; with
\* one ordering every key is on one node.
C10_OneNodePerOrdering ==
  \A k \in HeldKeys : Cardinality(Holders(k)) <= Cardinality(dorders)

\* C10 witness: two distributes under the same ordering of a registry of
\* MaxPeers peers have run, and a key is held, by one node.
C10_Witness ==
  /\ ncmds = 2
  /\ pc["console"] = "input"
  /\ Cardinality(dorders) = 1
  /\ Cardinality(DOMAIN peers) = MaxPeers
  /\ \E k \in HeldKeys : Cardinality(Holders(k)) = 1

\* a manager thread whose next statement reads or writes self.peers
RegistryStep(t) ==
  pc[t] \in {"register", "remove", "ring_lock", "dist_lock", "dist_loop",
             "teardown"}

\* that statement is inside a `with self.lock` block
UnderLock(t) == pc[t] \in LockWaits

\* C11: the listener and the console thread are never both at an access of
\* the registry with one of the two accesses outside the lock.
C11_RegistryAccessLocked ==
  \A t, u \in Threads :
    (t # u /\ RegistryStep(t) /\ RegistryStep(u)) =>
      (UnderLock(t) /\ UnderLock(u))

\* C12: a registration is followed by a ring broadcast without any operator
\* command: once a peer is in the registry, a set_next_peer is eventually
\* sent, unless the operator types a command or a leave is taken up first
\* (those broadcasts are the matter of C4 and C1).
C12_AddThenBroadcast ==
  (DOMAIN peers # {}) ~>
    (\/ \E m \in Datagrams : m.command = "set_next_peer"
     \/ ncmds > 0
     \/ pc["listener"] = "remove")

\* the node bound to port p is serving
Live(p) == p \in DOMAIN ppc /\ ppc[p] = "serving" /\ prunning[p]

\* membership has stopped changing and the final rebuild has been broadcast
\* and delivered: a setup has sent its last datagram for the registry as it
\* is, no register, leave or set_next_peer is left to deliver, and every
\* registered node is serving under the identity the registry has for it
RingSettled ==
  /\ pc["console"] = "ring_done"
  /\ pc["listener"] = "recv"
  /\ rsnap["console"] = peers
  /\ \A m \in Datagrams :
       m.command \notin {"register", "leave", "set_next_peer"}
  /\ \A id \in DOMAIN peers :
       Live(peers[id][2]) /\ peer_id[peers[id][2]] = id

\* C13: once the ring has settled, every live node's successor pointer is
\* its successor in the final ring, in whatever order the updates of this
\* and of earlier rebuilds were delivered.
C13_PointersConverge ==
  RingSettled =>
    \A id \in DOMAIN peers :
      next_peer[peers[id][2]] = peers[SuccId(peers, id)]

\* C14: every step in which a node's listener takes a store datagram sets the
\* key's entry of that node's partition to the payload carried, leaves
\* every other entry, every other node's partition and every successor
\* pointer unchanged, and sends one store_ack to the manager carrying the key
\* and the node's peer_id.
C14_StoreFrame ==
  [][\A m \in Datagrams :
       (/\ m.command = "store"
        /\ Listening(m.dst[2])
        /\ CopiesIn(m, net') < CopiesIn(m, net)) =>
         LET p == m.dst[2]
         IN /\ DOMAIN data_store'[p] = DOMAIN data_store[p] \cup {m.event_id}
            /\ data_store'[p][m.event_id] = m.event_data
            /\ \A k \in DOMAIN data_store[p] \ {m.event_id} :
                 data_store'[p][k] = data_store[p][k]
            /\ \A q \in DOMAIN data_store \ {p} : data_store'[q] = data_store[q]
            /\ next_peer' = next_peer
            /\ net' = (net (-) Send(m)) (+)
                      Send([dst |-> MANAGER_ADDRESS, src |-> m.dst,
                            command |-> "store_ack", peer_id |-> peer_id[p],
                            event_id |-> m.event_id])]_vars

\* C14 witness: a node has had the payload it held for key 1 replaced and has
\* been given key 2 as well, and its acknowledgement of key 1 is in flight.
C14_Witness ==
  \E p \in Ports :
    /\ Str(1) \in DOMAIN data_store[p]
    /\ data_store[p][Str(1)].LOCATION # 10
    /\ Str(2) \in DOMAIN data_store[p]
    /\ \E m \in Datagrams :
         /\ m.command = "store_ack"
         /\ m.src = PeerAddr(p)
         /\ m.event_id = Str(1)

\* C15: a query typed at a node that has no successor, for a key the node's
\* own partition holds, completes without an error.
C15_LocalLookupAnswered ==
  \A p \in DOMAIN ppc, k \in QueryKeys :
    (/\ CopiesIn(<<p, k>>, queries) > 0
     /\ ~IsSet(next_peer[p])
     /\ k \in DOMAIN data_store[p]) => <<p, k>> \notin raised

\* C16: in a ring where every node has a successor, every find_event for a
\* key some node holds has been forwarded at most n - 1 times when a node
\* takes it; a node that holds the key answers with its payload and forwards
\* nothing; a node that does not hold it sends its successor the message it
\* received, unchanged but for the addresses on the datagram.
C16_HeldLookupStopsAtHolder ==
  [][\A m \in Datagrams :
       (/\ m.command = "find_event"
        /\ RingSet
        /\ ~Absent(m.event_id)
        /\ CopiesIn(m, net') < CopiesIn(m, net)) =>
         LET p == m.dst[2]
             rest == net (-) Send(m)
         IN /\ m.hops <= Cardinality(DOMAIN ppc) - 1
            /\ IF m.event_id \in DOMAIN data_store[p]
               THEN \E f \in BagToSet(net') :
                      /\ net' = rest (+) Send(f)
                      /\ f.command = "found_event"
                      /\ f.event_id = m.event_id
                      /\ f.event_data = data_store[p][m.event_id]
               ELSE \E f \in BagToSet(net') :
                      /\ net' = rest (+) Send(f)
                      /\ f.command = m.command
                      /\ f.event_id = m.event_id
                      /\ f.dst = next_peer[p]
                      /\ f.hops = m.hops + 1]_vars

\* C16 witness: in a ring of MaxRing nodes a find_event is in flight to the
\* node that holds its key after MaxRing - 1 forwards (the holder asked).
C16_Witness ==
  /\ RingSet
  /\ Cardinality(DOMAIN ppc) = MaxRing
  /\ \E m \in Datagrams :
       /\ m.command = "find_event"
       /\ m.hops = MaxRing - 1
       /\ m.event_id \in DOMAIN data_store[m.dst[2]]

\* C17: every node that is in its serving loop holds an identity, and it is
\* the identity under which the registry records the node's address.
C17_ServingNodeHasIdentity ==
  \A p \in DOMAIN ppc :
    ppc[p] = "serving" =>
      /\ peer_id[p] # NoId
      /\ peer_id[p] \in DOMAIN peers
      /\ peers[peer_id[p]] = PeerAddr(p)

\* C18: the step in which a node with an identity leaves sends one leave
\* datagram naming that identity to the manager, and from then on no step
\* changes the node's partition or successor pointer or adds a datagram sent
\* by the node.
C18_NothingHandledAfterLeave ==
  [][\A p \in Ports :
       /\ (ppc[p] = "serving" /\ ppc'[p] = "exiting" /\ peer_id[p] # NoId) =>
            CopiesIn(LeaveMsg(PeerAddr(p), peer_id[p]), net') =
              CopiesIn(LeaveMsg(PeerAddr(p), peer_id[p]), net) + 1
       /\ ppc[p] \in {"exiting", "exited"} =>
            /\ data_store'[p] = data_store[p]
            /\ next_peer'[p] = next_peer[p]
            /\ \A m \in BagToSet(net') :
                 m.src = PeerAddr(p) => CopiesIn(m, net') <= CopiesIn(m, net)]_vars

\* the datagrams teardown sends for registry reg
TeardownMsgs(reg) ==
  SetToBag({[dst |-> reg[id], src |-> MANAGER_ADDRESS, command |-> "teardown"] :
              id \in DOMAIN reg})

\* no datagram addressed to addr is taken off the wire in this step
NoneTaken(addr) ==
  \A m \in Datagrams : m.dst = addr => CopiesIn(m, net') >= CopiesIn(m, net)

\* C19: the teardown step sends one teardown datagram to every peer of the
\* registry and clears the manager's running flag; once it is cleared the
\* manager takes no further datagram; a node whose listener has handled a
\* teardown takes no further datagram.
C19_TeardownStopsAll ==
  [][/\ (pc["console"] = "teardown" /\ pc'["console"] = "stopped") =>
          (net' = net (+) TeardownMsgs(peers) /\ ~mrunning')
     /\ ~mrunning => NoneTaken(MANAGER_ADDRESS)
     /\ \A p \in Ports :
          plisten[p] = "stopped" => NoneTaken(PeerAddr(p))]_vars

\* C20: a distribute that has taken its snapshot of a non-empty registry is
\* never aborted: the placement loop is not left through an exception, and
\* when it has ended every item has been sent.
C20_PlacementLoopNeverAborts ==
  /\ pc["console"] # "dist_error"
  /\ (pc["console"] = "dist_done" /\ DOMAIN dsnap # {}) =>
       Len(dsent) = NumEvents

====
